---- MODULE Spec2Model ----
(***************************************************************************)
(* Model of the Postman collection normalisation pipeline of               *)
(* src/src/processors/postman_processor.py (class PostmanProcessor), of    *)
(* its use by FrameworkGenerator.generate, and of the JSON repair loop of  *)
(* src/src/services/llm_service.py.                                        *)
(*                                                                         *)
(* Python strings are modelled as sequences of one-character strings, so   *)
(* that split, startswith and the regular expressions are computed the way *)
(* the code computes them.  A Python exception that leaves a function is   *)
(* modelled by the variable raised, which keeps the exception's name.      *)
(***************************************************************************)
EXTENDS Integers, Sequences, FiniteSets, TLC

VARIABLES
    raised,                        \* "none", or the name of the exception that escaped
    all_query_params,              \* accumulator of _accumulate_query_params
    current_request_query_params,  \* the last list of tokens handed to it
    qcount,                        \* number of requests accumulated so far
    accumulating,                  \* the accumulator this run feeds: "query" or "body"
    all_body_attributes,           \* accumulator of _accumulate_request_body_attributes
    current_request_body,          \* the last decoded body handed to it
    widened,                       \* history: <<accumulator, key>> widened number -> string
    qobserved,                     \* history: <<name, value is digits>> of the name=value tokens seen
    pc,                            \* the step the pipeline is at
    extracted_verb_chunks,         \* the list of VerbChunks handed to the grouping
    distinct_paths_no_query_params,\* list(set(...)) of the query-stripped paths
    verb_path_query_params,        \* the list of RouteShapes built by the grouping
    paths_grouped_by_service,      \* the service grouping the classifier returned
    service_chunks,                \* result of map_verb_path_pairs_to_services
    verb_chunks_tagged_with_service, \* result of add_service_name_to_verb_chunks
    full_path,                     \* a raw path
    root_path,                     \* the root path computed for it
    data,                          \* the collection tree, or one leaf of it
    request_data,                  \* the VerbChunk extracted from a leaf
    json_fix_retry,                \* config.json_fix_retry
    json_str,                      \* the value _load_json_safely is parsing
    attempt,                       \* the loop variable of _load_json_safely
    parse_attempts,                \* history: number of calls of json.loads
    fix_calls,                     \* history: number of calls of _fix_json
    json_value                     \* the value _load_json_safely returned

qvars == <<all_query_params, current_request_query_params, qcount, accumulating>>

bvars == <<all_body_attributes, current_request_body>>

hvars == <<widened, qobserved>>

gvars == <<pc, extracted_verb_chunks, distinct_paths_no_query_params,
           verb_path_query_params>>

svars == <<paths_grouped_by_service, service_chunks, verb_chunks_tagged_with_service>>

rvars == <<full_path, root_path>>

evars == <<data, request_data>>

lvars == <<json_fix_retry, json_str, attempt, parse_attempts, fix_calls, json_value>>

vars == <<raised, qvars, bvars, hvars, gvars, svars, rvars, evars, lvars>>

-----------------------------------------------------------------------------
(* Python string primitives on sequences of characters.                    *)

Digit == {"0", "1", "2", "3", "4", "5", "6", "7", "8", "9"}

NL == "\n"

CR == "\r"

EmptyMap == <<>>

\* All sequences over alphabet of length 0..n.
SeqsUpTo(alphabet, n) == UNION {[1..k -> alphabet] : k \in 0..n}

Range(s) == {s[i] : i \in DOMAIN s}

\* Index of the first occurrence of character c in s, 0 when there is none.
FirstIndex(s, c) ==
    IF \E i \in 1..Len(s) : s[i] = c
    THEN CHOOSE i \in 1..Len(s) : s[i] = c /\ \A j \in 1..(i - 1) : s[j] # c
    ELSE 0

\* str.split(c): the pieces between the occurrences of c, empty pieces kept.
RECURSIVE Split(_, _)
Split(s, c) ==
    LET i == FirstIndex(s, c)
    IN  IF i = 0 THEN <<s>>
        ELSE <<SubSeq(s, 1, i - 1)>> \o Split(SubSeq(s, i + 1, Len(s)), c)

\* str.startswith(p)
StartsWith(s, p) == Len(p) <= Len(s) /\ SubSeq(s, 1, Len(p)) = p

\* str.replace(c, ""): every occurrence of character c removed.
RemoveChar(s, c) == SelectSeq(s, LAMBDA ch : ch # c)

\* re.match(numeric_only, s) with numeric_only = ^\d+$ : one or more digits up to
\* the end of the string; Python's $ also matches before one trailing newline.
numeric_only(s) ==
    \E n \in 1..Len(s) :
        /\ \A i \in 1..n : s[i] \in Digit
        /\ \/ n = Len(s)
           \/ n = Len(s) - 1 /\ s[Len(s)] = NL

\* The values of an attribute shape: a type tag, or a nested shape.
Tag(name) == [tag |-> name, shape |-> EmptyMap]

Nested(shape) == [tag |-> "object", shape |-> shape]

-----------------------------------------------------------------------------
(* _accumulate_query_params (lines 163-177).                               *)

\* A variant that infers the tag again at every occurrence of a name.
accumulate_one_query_param_reinfer(st, param) ==
    LET param_array == Split(param, "=")
        param_name  == param_array[1]
        all         == st.map
    IN  IF st.err # "none" THEN st
        ELSE IF param_name # <<>> /\ Len(param_array) > 1
        THEN IF numeric_only(param_array[2])
             THEN [st EXCEPT !.map = (param_name :> Tag("number")) @@ all]
             ELSE [st EXCEPT !.map = (param_name :> Tag("string")) @@ all]
        ELSE IF param_name = <<>>
        THEN [st EXCEPT !.err = "KeyError"]
        ELSE st

\* One iteration of the loop over current_request_query_params: st is
\* [map, err], the dictionary so far and the exception raised so far.
accumulate_one_query_param(st, param) ==
    LET param_array == Split(param, "=")
        param_name  == param_array[1]
        all         == st.map
    IN  IF st.err # "none" THEN st
        ELSE IF param_name # <<>> /\ param_name \notin DOMAIN all
        THEN IF Len(param_array) > 1
             THEN IF numeric_only(param_array[2])
                  THEN [st EXCEPT !.map = (param_name :> Tag("number")) @@ all]
                  ELSE [st EXCEPT !.map = (param_name :> Tag("string")) @@ all]
             ELSE st
        ELSE IF param_name \notin DOMAIN all
        THEN [st EXCEPT !.err = "KeyError"]       \* all_query_params[param_name]
        ELSE IF all[param_name] = Tag("number") /\ Len(param_array) > 1
        THEN IF ~numeric_only(param_array[2])
             THEN [st EXCEPT !.map = (param_name :> Tag("string")) @@ all]
             ELSE st
        ELSE st

RECURSIVE accumulate_query_params_from(_, _, _)
accumulate_query_params_from(st, params, i) ==
    IF i > Len(params) THEN st
    ELSE accumulate_query_params_from(
             accumulate_one_query_param(st, params[i]), params, i + 1)

accumulate_query_params(all, params) ==
    accumulate_query_params_from([map |-> all, err |-> "none"], params, 1)

-----------------------------------------------------------------------------
(* Decoded JSON values (what json.loads returns): records [t, v] with t    *)
(* the Python type and v the payload.  A dict is an ordered sequence of    *)
(* <<key, value>> pairs (Python dicts iterate in insertion order); keys    *)
(* of decoded bodies are strings, that is sequences of characters.         *)

JStr(s) == [t |-> "str", v |-> s]

JNum(s) == [t |-> "num", v |-> s]

JNull == [t |-> "null", v |-> <<>>]

JBool(b) == [t |-> "bool", v |-> b]

None == JNull

JList(items) == [t |-> "list", v |-> items]

JDict(kv) == [t |-> "dict", v |-> kv]

\* d[k] = x on an ordered dict: an existing key keeps its place.
DictSet(kv, k, x) ==
    IF \E i \in 1..Len(kv) : kv[i][1] = k
    THEN [i \in 1..Len(kv) |-> IF kv[i][1] = k THEN <<k, x>> ELSE kv[i]]
    ELSE Append(kv, <<k, x>>)

\* f"{key}Object"
ObjectKey(key) == key \o <<"O", "b", "j", "e", "c", "t">>

-----------------------------------------------------------------------------
(* _map_object_attributes (lines 260-276).                                 *)

RECURSIVE map_object_attributes_from(_, _, _)
map_object_attributes_from(mapped_attributes, obj, i) ==
    IF i > Len(obj.v) THEN mapped_attributes
    ELSE LET key   == obj.v[i][1]
             value == obj.v[i][2]
             next  ==
                 IF value.t = "str" /\ numeric_only(value.v)
                 THEN (key :> Tag("number")) @@ mapped_attributes
                 ELSE IF value.t = "str"
                 THEN (key :> Tag("string")) @@ mapped_attributes
                 ELSE IF value.t = "dict"
                 THEN (ObjectKey(key) :>
                          Nested(map_object_attributes_from(EmptyMap, value, 1)))
                      @@ mapped_attributes
                 ELSE IF value.t = "list"
                 THEN (ObjectKey(key) :> Tag("array")) @@ mapped_attributes
                 ELSE mapped_attributes
         IN  map_object_attributes_from(next, obj, i + 1)

map_object_attributes(obj) == map_object_attributes_from(EmptyMap, obj, 1)

-----------------------------------------------------------------------------
(* _accumulate_request_body_attributes (lines 179-199).                    *)

\* One iteration of the loop over current_request_body.items().
accumulate_one_body_attribute(all, key, value) ==
    IF key \notin DOMAIN all
    THEN IF value.t = "str" /\ numeric_only(value.v)
         THEN (key :> Tag("number")) @@ all
         ELSE IF value.t = "str"
         THEN (key :> Tag("string")) @@ all
         ELSE IF value.t = "dict"
         THEN (ObjectKey(key) :> Nested(map_object_attributes(value))) @@ all
         ELSE IF value.t = "list"
         THEN (ObjectKey(key) :> Tag("array")) @@ all
         ELSE all
    ELSE IF value.t = "str" /\ ~numeric_only(value.v)
    THEN (key :> Tag("string")) @@ all
    ELSE all

RECURSIVE accumulate_request_body_attributes_from(_, _, _)
accumulate_request_body_attributes_from(all, body, i) ==
    IF i > Len(body.v) THEN all
    ELSE accumulate_request_body_attributes_from(
             accumulate_one_body_attribute(all, body.v[i][1], body.v[i][2]),
             body, i + 1)

accumulate_request_body_attributes(all, body) ==
    accumulate_request_body_attributes_from(all, body, 1)

-----------------------------------------------------------------------------
(* Route grouping (lines 96-161).                                          *)

\* path.split("?")[0]
StripQuery(path) == Split(path, "?")[1]

\* _get_root_path (lines 253-258): re.search(r"(?<!/)/([^/]+)/", full_path).
\* The pattern matches at i when s[i] is a "/" not preceded by a "/", followed by
\* a non-empty run of characters other than "/" and then a "/".
RunEnd(s, i) ==
    CHOOSE j \in i..Len(s) :
        /\ \A k \in (i + 1)..j : s[k] # "/"
        /\ (j = Len(s) \/ s[j + 1] = "/")

RootMatchAtNoLookbehind(s, i) ==
    /\ s[i] = "/"
    /\ RunEnd(s, i) > i
    /\ RunEnd(s, i) < Len(s)

RootMatchAt(s, i) ==
    /\ s[i] = "/"
    /\ (i = 1 \/ s[i - 1] # "/")
    /\ RunEnd(s, i) > i
    /\ RunEnd(s, i) < Len(s)

get_root_path_no_lookbehind(path) ==
    IF \E i \in 1..Len(path) : RootMatchAtNoLookbehind(path, i)
    THEN LET i == CHOOSE i \in 1..Len(path) :
                      /\ RootMatchAtNoLookbehind(path, i)
                      /\ \A j \in 1..(i - 1) : ~RootMatchAtNoLookbehind(path, j)
         IN  SubSeq(path, i + 1, RunEnd(path, i))
    ELSE <<>>

get_root_path(path) ==
    IF \E i \in 1..Len(path) : RootMatchAt(path, i)
    THEN LET i == CHOOSE i \in 1..Len(path) :
                      /\ RootMatchAt(path, i)
                      /\ \A j \in 1..(i - 1) : ~RootMatchAt(path, j)
         IN  SubSeq(path, i + 1, RunEnd(path, i))
    ELSE <<>>

\* get_all_distinct_paths_no_query_params (lines 96-101), as a set: list(set(..))
\* gives its elements in an order the code does not fix.
get_all_distinct_paths_no_query_params(chunks) ==
    { StripQuery(chunks[i].path) : i \in 1..Len(chunks) }

Orderings(S) ==
    { s \in [1..Cardinality(S) -> S] : \A i, j \in DOMAIN s : s[i] = s[j] => i = j }

\* A variant of line 117 that keeps only the requests to the path itself.
MatchingExactPaths(chunks, path_no_query_params) ==
    SelectSeq(chunks, LAMBDA item : StripQuery(item.path) = path_no_query_params)

\* Lines 112-123: the chunks whose raw path starts with the stripped path, and
\* their verbs in order of first occurrence.
MatchingFullPaths(chunks, path_no_query_params) ==
    SelectSeq(chunks, LAMBDA item : StartsWith(item.path, path_no_query_params))

RECURSIVE VerbsOf(_, _, _)
VerbsOf(verbs, items, i) ==
    IF i > Len(items) THEN verbs
    ELSE VerbsOf(IF items[i].verb \in Range(verbs) THEN verbs
                 ELSE Append(verbs, items[i].verb), items, i + 1)

\* Lines 131-151, one path_item: st is [q, b, err], the two accumulators of the
\* verb and path and the exception raised so far.
AccumulatePathItem(st, path_item, verb) ==
    IF st.err # "none" \/ path_item.verb # verb THEN st
    ELSE IF path_item.body # None /\ path_item.body.t # "dict"
    THEN [st EXCEPT !.err = "AttributeError"]      \* current_request_body.items()
    ELSE LET b == IF path_item.body # None
                  THEN accumulate_request_body_attributes(st.b, path_item.body)
                  ELSE st.b
             path_sliced_on_query_param_start == Split(path_item.path, "?")
         IN  IF Len(path_sliced_on_query_param_start) > 1
             THEN LET r == accumulate_query_params(
                               st.q, Split(path_sliced_on_query_param_start[2], "&"))
                  IN  [q |-> r.map, b |-> b, err |-> r.err]
             ELSE [st EXCEPT !.b = b]

RECURSIVE AccumulatePathItems(_, _, _, _)
AccumulatePathItems(st, items, verb, i) ==
    IF i > Len(items) THEN st
    ELSE AccumulatePathItems(AccumulatePathItem(st, items[i], verb), items, verb, i + 1)

\* Lines 125-161 for one verb of one path: the RouteShape, or the exception.
RouteShapeOf(path_no_query_params, verb, matching_full_paths) ==
    LET st == AccumulatePathItems([q |-> EmptyMap, b |-> EmptyMap, err |-> "none"],
                                  matching_full_paths, verb, 1)
    IN  [ err   |-> st.err,
          shape |-> [ verb         |-> verb,
                      root_path    |-> get_root_path(path_no_query_params),
                      path         |-> path_no_query_params,
                      query_params |-> st.q,
                      body         |-> st.b ] ]

\* The loop over verbs (line 125) from verb i on: out is [shapes, err].
RECURSIVE RouteShapesOfVerbs(_, _, _, _, _)
RouteShapesOfVerbs(out, path_no_query_params, verbs, matching_full_paths, i) ==
    IF i > Len(verbs) \/ out.err # "none" THEN out
    ELSE LET r == RouteShapeOf(path_no_query_params, verbs[i], matching_full_paths)
         IN  RouteShapesOfVerbs(
                 IF r.err # "none" THEN [out EXCEPT !.err = r.err]
                 ELSE [out EXCEPT !.shapes = Append(out.shapes, r.shape)],
                 path_no_query_params, verbs, matching_full_paths, i + 1)

\* The loop over the distinct paths (line 110) from path i on.
RECURSIVE RouteShapesOfPaths(_, _, _, _)
RouteShapesOfPaths(out, paths, chunks, i) ==
    IF i > Len(paths) \/ out.err # "none" THEN out
    ELSE LET matching_full_paths == MatchingFullPaths(chunks, paths[i])
             verbs == VerbsOf(<<>>, matching_full_paths, 1)
         IN  RouteShapesOfPaths(
                 RouteShapesOfVerbs(out, paths[i], verbs, matching_full_paths, 1),
                 paths, chunks, i + 1)

\* _extract_query_params_for_verb_path_pairs (lines 103-161), given the order in
\* which list(set(..)) gave the distinct paths.
extract_query_params_for_verb_path_pairs(paths, chunks) ==
    RouteShapesOfPaths([shapes |-> <<>>, err |-> "none"], paths, chunks, 1)

-----------------------------------------------------------------------------
(* Service mapping (lines 47-94).  A service grouping is an ordered        *)
(* sequence of <<service, routes>> pairs (the items() of the dict), routes *)
(* the set of the paths listed under the service.                          *)

\* A variant that stops at the first service that lists the path.
RECURSIVE AppendToFirstService(_, _, _, _)
AppendToFirstService(result, verb_path_pair, grouping, i) ==
    IF i > Len(grouping) THEN result
    ELSE IF verb_path_pair.path \in grouping[i][2]
    THEN IF grouping[i][1] \in DOMAIN result
         THEN [result EXCEPT ![grouping[i][1]] =
                  Append(@, [ verb         |-> verb_path_pair.verb,
                              path         |-> verb_path_pair.path,
                              query_params |-> verb_path_pair.query_params,
                              body         |-> verb_path_pair.body ])]
         ELSE (grouping[i][1] :>
                  << [ verb         |-> verb_path_pair.verb,
                       path         |-> verb_path_pair.path,
                       query_params |-> verb_path_pair.query_params,
                       body         |-> verb_path_pair.body ] >>) @@ result
    ELSE AppendToFirstService(result, verb_path_pair, grouping, i + 1)

\* Lines 61-75 for one RouteShape: the record is appended to the list of every
\* service that lists its path.
RECURSIVE AppendToServices(_, _, _, _)
AppendToServices(result, verb_path_pair, grouping, i) ==
    IF i > Len(grouping) THEN result
    ELSE LET service == grouping[i][1]
             routes  == grouping[i][2]
             record  == [ verb         |-> verb_path_pair.verb,
                          path         |-> verb_path_pair.path,
                          query_params |-> verb_path_pair.query_params,
                          body         |-> verb_path_pair.body ]
             next    == IF verb_path_pair.path \in routes
                        THEN IF service \in DOMAIN result
                             THEN [result EXCEPT ![service] = Append(@, record)]
                             ELSE (service :> <<record>>) @@ result
                        ELSE result
         IN  AppendToServices(next, verb_path_pair, grouping, i + 1)

RECURSIVE MapToServices(_, _, _, _)
MapToServices(result, shapes, grouping, i) ==
    IF i > Len(shapes) THEN result
    ELSE MapToServices(AppendToServices(result, shapes[i], grouping, 1),
                       shapes, grouping, i + 1)

\* map_verb_path_pairs_to_services (lines 47-77), given the order of the distinct
\* paths: [shapes, services, err].
map_verb_path_pairs_to_services(paths, verb_path_pairs, grouping) ==
    LET out == extract_query_params_for_verb_path_pairs(paths, verb_path_pairs)
    IN  [ shapes   |-> out.shapes,
          err      |-> out.err,
          services |-> IF out.err # "none" THEN EmptyMap
                       ELSE MapToServices(EmptyMap, out.shapes, grouping, 1) ]

\* A variant of lines 87-89 that looks the raw path up in the routes.
RawPathMatchingService(verb_chunk, grouping) ==
    LET hits == { i \in 1..Len(grouping) : verb_chunk.path \in grouping[i][2] }
    IN  IF hits = {} THEN 0 ELSE CHOOSE i \in hits : \A j \in hits : i <= j

\* Lines 85-92 for one chunk: the index of the service it is tagged with, scanning
\* the grouping in order; 0 when no service lists its stripped path.
LastMatchingService(verb_chunk, grouping) ==
    LET hits == { i \in 1..Len(grouping) : StripQuery(verb_chunk.path) \in grouping[i][2] }
    IN  IF hits = {} THEN 0 ELSE CHOOSE i \in hits : \A j \in hits : j <= i

FirstMatchingService(verb_chunk, grouping) ==
    LET hits == { i \in 1..Len(grouping) : StripQuery(verb_chunk.path) \in grouping[i][2] }
    IN  IF hits = {} THEN 0 ELSE CHOOSE i \in hits : \A j \in hits : i <= j

\* add_service_name_to_verb_chunks (lines 79-94): a copy of the chunks, each with
\* the field service added when a service lists its stripped path.
add_service_name_to_verb_chunks(verb_chunks, grouping) ==
    [ n \in 1..Len(verb_chunks) |->
        LET i == FirstMatchingService(verb_chunks[n], grouping)
        IN  IF i = 0 THEN verb_chunks[n]
            ELSE ("service" :> grouping[i][1]) @@ verb_chunks[n] ]

\* A call of it on a list the caller holds, without the copy of line 81: the
\* loop then writes to the chunks of the caller.
AddServiceNameInPlace(verb_chunks, grouping) ==
    [ verb_chunks |-> add_service_name_to_verb_chunks(verb_chunks, grouping),
      returned    |-> add_service_name_to_verb_chunks(verb_chunks, grouping) ]

\* A call of it on a list the caller holds: the caller's list after the call and
\* the list returned.  Line 81 makes a deep copy and the loop writes to the copy
\* only, so nothing of the caller's list is reachable from what is written.
AddServiceName(verb_chunks, grouping) ==
    [ verb_chunks |-> verb_chunks,
      returned    |-> add_service_name_to_verb_chunks(verb_chunks, grouping) ]

-----------------------------------------------------------------------------
(* json.loads on a text (lines 232-234).  The texts of the model are over   *)
(* an alphabet without the escapes \b and \uXXXX.  A scan gives [ok, val,   *)
(* next]: whether a value was read, the value, and the index after it.      *)

Whitespace == {" ", "\t", NL, CR}

ControlChars == {"\t", "\f", NL, CR}

Escapes ==
    [ c \in {"\"", "\\", "/", "n", "r", "t", "f"} |->
        CASE c = "n" -> NL
          [] c = "r" -> CR
          [] c = "t" -> "\t"
          [] c = "f" -> "\f"
          [] OTHER   -> c ]

NoValue == [ok |-> FALSE, val |-> None, next |-> 0]

Value(val, next) == [ok |-> TRUE, val |-> val, next |-> next]

\* s[i], and "" past the end of the text.
At(s, i) == IF i \in 1..Len(s) THEN s[i] ELSE ""

\* s[i:].startswith(lit)
HasAt(s, i, lit) ==
    i + Len(lit) - 1 <= Len(s) /\ SubSeq(s, i, i + Len(lit) - 1) = lit

RECURSIVE SkipWhitespace(_, _)
SkipWhitespace(s, i) ==
    IF At(s, i) \in Whitespace THEN SkipWhitespace(s, i + 1) ELSE i

RECURSIVE DigitsEnd(_, _)
DigitsEnd(s, i) == IF At(s, i) \in Digit THEN DigitsEnd(s, i + 1) ELSE i

\* A string from the character after its opening quote: the characters up to
\* the closing quote; a control character or an unknown escape is an error.
RECURSIVE ScanString(_, _, _)
ScanString(s, i, acc) ==
    IF At(s, i) = "" \/ At(s, i) \in ControlChars THEN NoValue
    ELSE IF At(s, i) = "\"" THEN Value(JStr(acc), i + 1)
    ELSE IF At(s, i) = "\\" /\ At(s, i + 1) \notin DOMAIN Escapes THEN NoValue
    ELSE ScanString(s, IF At(s, i) = "\\" THEN i + 2 ELSE i + 1,
                    Append(acc, IF At(s, i) = "\\" THEN Escapes[At(s, i + 1)]
                                ELSE At(s, i)))

\* A number, -?(0|[1-9]\d*)(\.\d+)?([eE][-+]?\d+)? : the text from i to end - 1.
NumberValue(s, i, end) == Value(JNum(SubSeq(s, i, end - 1)), end)

ExponentDigits(s, i, frac_end, exp) ==
    NumberValue(s, i, IF At(s, exp) \in Digit THEN DigitsEnd(s, exp) ELSE frac_end)

Exponent(s, i, frac_end) ==
    ExponentDigits(s, i, frac_end,
        IF At(s, frac_end) \notin {"e", "E"} THEN 0
        ELSE IF At(s, frac_end + 1) \in {"-", "+"} THEN frac_end + 2
        ELSE frac_end + 1)

Fraction(s, i, int_end) ==
    Exponent(s, i, IF At(s, int_end) = "." /\ At(s, int_end + 1) \in Digit
                   THEN DigitsEnd(s, int_end + 1) ELSE int_end)

IntegerPart(s, i, first) ==
    IF At(s, first) \notin Digit THEN NoValue
    ELSE Fraction(s, i, IF At(s, first) = "0" THEN first + 1
                        ELSE DigitsEnd(s, first))

ScanNumber(s, i) == IntegerPart(s, i, IF At(s, i) = "-" THEN i + 1 ELSE i)

Literals ==
    << <<<<"n", "u", "l", "l">>, None>>,
       <<<<"t", "r", "u", "e">>, JBool(TRUE)>>,
       <<<<"f", "a", "l", "s", "e">>, JBool(FALSE)>>,
       <<<<"N", "a", "N">>, JNum(<<"N", "a", "N">>)>>,
       <<<<"I", "n", "f", "i", "n", "i", "t", "y">>,
         JNum(<<"I", "n", "f", "i", "n", "i", "t", "y">>)>>,
       <<<<"-", "I", "n", "f", "i", "n", "i", "t", "y">>,
         JNum(<<"-", "I", "n", "f", "i", "n", "i", "t", "y">>)>> >>

ScanLiteral(i, literal) == Value(literal[2], i + Len(literal[1]))

RECURSIVE ScanValue(_, _), ScanMembers(_, _, _), ScanElements(_, _, _)

\* After the value of a member: "}" ends the object, "," goes to the next key.
MembersAfterValue(s, after, kv) ==
    IF At(s, after) = "}" THEN Value(JDict(kv), after + 1)
    ELSE IF At(s, after) = ","
    THEN ScanMembers(s, SkipWhitespace(s, after + 1), kv)
    ELSE NoValue

MemberValue(s, key, value, kv) ==
    IF ~value.ok THEN NoValue
    ELSE MembersAfterValue(s, SkipWhitespace(s, value.next),
                           DictSet(kv, key, value.val))

MemberColon(s, key, colon, kv) ==
    IF At(s, colon) # ":" THEN NoValue
    ELSE MemberValue(s, key, ScanValue(s, SkipWhitespace(s, colon + 1)), kv)

MemberKey(s, key, kv) ==
    IF ~key.ok THEN NoValue
    ELSE MemberColon(s, key.val.v, SkipWhitespace(s, key.next), kv)

\* The members of an object from the key at i; kv holds the members so far.
ScanMembers(s, i, kv) ==
    IF At(s, i) # "\"" THEN NoValue
    ELSE MemberKey(s, ScanString(s, i + 1, <<>>), kv)

ElementsAfterValue(s, after, items) ==
    IF At(s, after) = "]" THEN Value(JList(items), after + 1)
    ELSE IF At(s, after) = ","
    THEN ScanElements(s, SkipWhitespace(s, after + 1), items)
    ELSE NoValue

ElementValue(s, value, items) ==
    IF ~value.ok THEN NoValue
    ELSE ElementsAfterValue(s, SkipWhitespace(s, value.next),
                            Append(items, value.val))

\* The elements of an array from the element at i; items holds those so far.
ScanElements(s, i, items) == ElementValue(s, ScanValue(s, i), items)

\* After "{" : "}" at once is the empty object.
ScanObject(s, first) ==
    IF At(s, first) = "}" THEN Value(JDict(<<>>), first + 1)
    ELSE ScanMembers(s, first, <<>>)

\* After "[" : "]" at once is the empty array.
ScanArray(s, first) ==
    IF At(s, first) = "]" THEN Value(JList(<<>>), first + 1)
    ELSE ScanElements(s, first, <<>>)

\* The value that starts at i.
ScanValue(s, i) ==
    IF At(s, i) = "\"" THEN ScanString(s, i + 1, <<>>)
    ELSE IF At(s, i) = "{" THEN ScanObject(s, SkipWhitespace(s, i + 1))
    ELSE IF At(s, i) = "[" THEN ScanArray(s, SkipWhitespace(s, i + 1))
    ELSE IF \E n \in DOMAIN Literals : HasAt(s, i, Literals[n][1])
    THEN ScanLiteral(i, Literals[CHOOSE n \in DOMAIN Literals :
                                     HasAt(s, i, Literals[n][1])])
    ELSE ScanNumber(s, i)

\* The whole text is one value between whitespace, or json.JSONDecodeError.
WholeText(s, value) ==
    IF value.ok /\ SkipWhitespace(s, value.next) = Len(s) + 1
    THEN [ok |-> TRUE, val |-> value.val]
    ELSE [ok |-> FALSE, val |-> None]

\* json.loads(s): [ok, val]; ok is false where json.JSONDecodeError is raised.
json_loads(s) == WholeText(s, ScanValue(s, SkipWhitespace(s, 1)))

-----------------------------------------------------------------------------
(* The collection tree (what json.load returns for the export, line 16).    *)
(* The code compares the keys of its mappings with literals only: they are  *)
(* TLA+ strings.  A Python str is the sequence of its characters, a list    *)
(* the sequence of its items.                                               *)

\* key in d
HasKey(d, key) == \E i \in 1..Len(d.v) : d.v[i][1] = key

\* d[key], for a key of d
Item(d, key) == d.v[CHOOSE i \in 1..Len(d.v) : d.v[i][1] = key][2]

\* d.get(key, default)
Get(d, key, default) ==
    IF \E i \in 1..Len(d.v) : d.v[i][1] = key
    THEN d.v[CHOOSE i \in 1..Len(d.v) : d.v[i][1] = key][2]
    ELSE default

UpperCase ==
    << "A", "B", "C", "D", "E", "F", "G", "H", "I", "J", "K", "L", "M",
       "N", "O", "P", "Q", "R", "S", "T", "U", "V", "W", "X", "Y", "Z" >>

LowerCase ==
    << "a", "b", "c", "d", "e", "f", "g", "h", "i", "j", "k", "l", "m",
       "n", "o", "p", "q", "r", "s", "t", "u", "v", "w", "x", "y", "z" >>

\* [a-zA-Z0-9]
Alphanumeric == Range(UpperCase) \cup Range(LowerCase) \cup Digit

\* str.lower() and str.upper() of one character
lower(c) ==
    IF c \in Range(UpperCase)
    THEN LowerCase[CHOOSE i \in DOMAIN UpperCase : UpperCase[i] = c] ELSE c

upper(c) ==
    IF c \in Range(LowerCase)
    THEN UpperCase[CHOOSE i \in DOMAIN LowerCase : LowerCase[i] = c] ELSE c

\* word.capitalize()
capitalize(word) ==
    [i \in DOMAIN word |-> IF i = 1 THEN upper(word[i]) ELSE lower(word[i])]

\* The index of the first character of s that is not alphanumeric, 0 if none.
FirstSeparator(s) ==
    IF \A i \in 1..Len(s) : s[i] \in Alphanumeric THEN 0
    ELSE CHOOSE i \in 1..Len(s) :
             /\ s[i] \notin Alphanumeric
             /\ \A j \in 1..(i - 1) : s[j] \in Alphanumeric

\* [word for word in re.split(r"[^a-zA-Z0-9]", s) if word]
RECURSIVE words_from(_, _)
words_from(s, i) ==
    IF i = 0 THEN (IF s = <<>> THEN <<>> ELSE <<s>>)
    ELSE (IF i = 1 THEN <<>> ELSE <<SubSeq(s, 1, i - 1)>>)
             \o words_from(SubSeq(s, i + 1, Len(s)),
                           FirstSeparator(SubSeq(s, i + 1, Len(s))))

\* words[0].lower() + "".join(word.capitalize() for word in words[1:])
RECURSIVE join_words(_, _)
join_words(words, i) ==
    IF i > Len(words) THEN <<>>
    ELSE (IF i = 1 THEN [j \in DOMAIN words[i] |-> lower(words[i][j])]
          ELSE capitalize(words[i]))
             \o join_words(words, i + 1)

\* _to_camel_case (lines 201-206)
to_camel_case(s) == join_words(words_from(s, FirstSeparator(s)), 1)

\* _item_is_a_test_case (lines 250-251)
item_is_a_test_case(d) ==
    HasKey(d, "request") \/ (HasKey(d, "event") /\ HasKey(d, "request"))

EmptyString == JStr(<<>>)

EmptyList == JList(<<>>)

EmptyDict == JDict(<<>>)

Test == <<"t", "e", "s", "t">>

Prerequest == <<"p", "r", "e", "r", "e", "q", "u", "e", "s", "t">>

\* script.get("script", {}).get("exec", []) stored under the field listened to.
read_exec(st, listen, inner) ==
    IF inner.t # "dict" THEN [st EXCEPT !.err = "AttributeError"]
    ELSE IF listen = JStr(Test)
    THEN [st EXCEPT !.script = Get(inner, "exec", EmptyList).v]
    ELSE [st EXCEPT !.prerequest = Get(inner, "exec", EmptyList).v]

read_listen(st, script, listen) ==
    IF listen # JStr(Test) /\ listen # JStr(Prerequest) THEN st
    ELSE read_exec(st, listen, Get(script, "script", EmptyDict))

\* One iteration of the loop over data["event"] (lines 240-244): st is
\* [script, prerequest, err].
read_event(st, script) ==
    IF st.err # "none" THEN st
    ELSE IF script.t # "dict" THEN [st EXCEPT !.err = "AttributeError"]
    ELSE read_listen(st, script, Get(script, "listen", None))

RECURSIVE read_events(_, _, _)
read_events(st, events, i) ==
    IF i > Len(events) THEN st
    ELSE read_events(read_event(st, events[i]), events, i + 1)

NoEvents == [script |-> <<>>, prerequest |-> <<>>, err |-> "none"]

\* except (KeyError, json.JSONDecodeError): clean_json_body = None
clean_json_body(loaded) ==
    [body |-> IF loaded.ok THEN loaded.val ELSE None, err |-> "none"]

\* json.loads(raw_body.replace("\r", "").replace("\n", ""))
read_raw_body(raw_body) ==
    IF raw_body.t # "str" THEN [body |-> None, err |-> "AttributeError"]
    ELSE clean_json_body(json_loads(RemoveChar(RemoveChar(raw_body.v, CR), NL)))

\* lines 229-237, for the value of the key "body" of the request: [body, err].
read_body(body) ==
    IF body.t # "dict" THEN [body |-> None, err |-> "AttributeError"]
    ELSE read_raw_body(Get(body, "raw", EmptyString))

\* lines 222-227, for the value of the key "url" of the request: [path, err].
read_url(url_value) ==
    IF url_value.t # "dict" THEN [path |-> url_value.v, err |-> "none"]
    ELSE IF HasKey(url_value, "raw")
    THEN [path |-> Item(url_value, "raw").v, err |-> "none"]
    ELSE [path |-> <<>>, err |-> "KeyError"]

VerbChunk(path, verb, body, prerequest, script, name) ==
    [ path |-> path, verb |-> verb, body |-> body,
      prerequest |-> prerequest, script |-> script, name |-> name ]

Raise(err) == [result |-> None, err |-> err]

\* line 246 and the return
read_name(d, verb, path, body, events) ==
    IF events.err # "none" THEN Raise(events.err)
    ELSE IF ~HasKey(d, "name") THEN Raise("KeyError")
    ELSE IF Item(d, "name").t # "str" THEN Raise("TypeError")
    ELSE [ result |-> VerbChunk(path, verb, body, events.prerequest,
                                events.script, to_camel_case(Item(d, "name").v)),
           err |-> "none" ]

\* lines 239-244
read_event_list(d, verb, url, body) ==
    IF url.err # "none" THEN Raise(url.err)
    ELSE IF body.err # "none" THEN Raise(body.err)
    ELSE read_name(d, verb, url.path, body.body,
             IF HasKey(d, "event") /\ Item(d, "event").t = "list"
             THEN read_events(NoEvents, Item(d, "event").v, 1)
             ELSE NoEvents)

\* lines 218-237: request is data["request"] when it is a mapping, and the
\* empty mapping otherwise, which leaves verb, path and body at their defaults.
read_request(d, request) ==
    read_event_list(d, Get(request, "method", EmptyString).v,
        IF HasKey(request, "url") THEN read_url(Item(request, "url"))
        ELSE [path |-> <<>>, err |-> "none"],
        IF HasKey(request, "body") THEN read_body(Item(request, "body"))
        ELSE [body |-> EmptyDict, err |-> "none"])

\* _extract_request_data (lines 208-248): [result, err], err the exception that
\* leaves the function, "none" when it returns result.
extract_request_data(d) ==
    read_request(d, IF HasKey(d, "request") /\ Item(d, "request").t = "dict"
                    THEN Item(d, "request") ELSE EmptyDict)

RECURSIVE extract_verb_chunks(_), extract_from_items(_, _, _),
          extract_from_keys(_, _, _)

NoResults == [results |-> <<>>, err |-> "none"]

\* results.extend(found)
extend_results(st, found) ==
    [results |-> st.results \o found.results, err |-> found.err]

\* results.extend(self.extract_verb_chunks(item)) for the items from i on
\* (lines 27-28, 31, 42-43); st is [results, err].
extract_from_items(st, items, i) ==
    IF i > Len(items) \/ st.err # "none" THEN st
    ELSE extract_from_items(extend_results(st, extract_verb_chunks(items[i])),
                            items, i + 1)

\* A variant without the test of line 37.
append_result_always(st, out) ==
    IF out.err # "none" THEN [st EXCEPT !.err = out.err]
    ELSE [st EXCEPT !.results = Append(@, out.result)]

\* lines 35-39: the leaf's VerbChunk is appended unless its name is in results.
append_result(st, out) ==
    IF out.err # "none" THEN [st EXCEPT !.err = out.err]
    ELSE IF out.result.name \in {st.results[j].name : j \in DOMAIN st.results}
    THEN st
    ELSE [st EXCEPT !.results = Append(@, out.result)]

\* One iteration of the loop over data.items() (lines 24-39).
extract_from_key(st, d, key, value) ==
    IF (key = "item" /\ value.t = "list") \/ value.t = "dict"
    THEN extract_from_items(st, IF value.t = "list" THEN value.v ELSE <<value>>, 1)
    ELSE IF item_is_a_test_case(d)
    THEN append_result(st, extract_request_data(d))
    ELSE st

extract_from_keys(st, d, i) ==
    IF i > Len(d.v) \/ st.err # "none" THEN st
    ELSE extract_from_keys(extract_from_key(st, d, d.v[i][1], d.v[i][2]), d, i + 1)

\* extract_verb_chunks (lines 19-45): [results, err].
extract_verb_chunks(d) ==
    IF d.t = "dict" THEN extract_from_keys(NoResults, d, 1)
    ELSE IF d.t = "list" THEN extract_from_items(NoResults, d.v, 1)
    ELSE NoResults

-----------------------------------------------------------------------------
(* Specification SpecAccumulate: the accumulators of one route and verb    *)
(* (lines 127-151) take the decoded bodies and the query strings of up to  *)
(* MaxRequests requests, one call of an accumulator per step.  The two     *)
(* accumulators share no state, so a run feeds one of them.                *)

MaxRequests == 3

MaxParams == 2

MaxBodyKeys == 2

\* The name=value tokens a query string is made of.
QueryTokens ==
    { <<"a", "=", "1">>, <<"a", "=", "x">>, <<"a">>, <<>>, <<"=", "5">>,
      <<"b", "=", "1">>, <<"a", "=", "1", "=", "x">> }

\* "&".join(tokens)
RECURSIVE Join(_, _)
Join(tokens, sep) ==
    IF tokens = <<>> THEN <<>>
    ELSE IF Len(tokens) = 1 THEN tokens[1]
    ELSE tokens[1] \o <<sep>> \o Join(Tail(tokens), sep)

\* The text after the "?" of a path: up to MaxParams tokens joined by "&".
QueryStrings == { Join(ts, "&") : ts \in SeqsUpTo(QueryTokens, MaxParams) }

BodyKeys == {<<"a">>, ObjectKey(<<"a">>)}

BodyValues ==
    { JStr(<<"5">>), JStr(<<"x">>), JNum(<<"5">>), JBool(TRUE), JNull, JList(<<>>),
      JDict(<< <<<<"b">>, JStr(<<"5">>)>> >>),
      JDict(<< <<<<"b">>, JStr(<<"x">>)>> >>) }

\* The decoded bodies: dicts of up to MaxBodyKeys distinct keys, in any order.
Bodies ==
    { JDict(kv) : kv \in
        { s \in SeqsUpTo(BodyKeys \X BodyValues, MaxBodyKeys) :
            \A i, j \in 1..Len(s) : s[i][1] = s[j][1] => i = j } }

NoBody == None

\* The variables a specification does not use keep these values.
IdleAccumulate ==
    /\ all_query_params = EmptyMap
    /\ current_request_query_params = <<>>
    /\ all_body_attributes = EmptyMap
    /\ current_request_body = NoBody
    /\ qcount = 0
    /\ accumulating = "none"
    /\ widened = {}
    /\ qobserved = {}

IdleGroup ==
    /\ pc = "idle"
    /\ extracted_verb_chunks = <<>>
    /\ distinct_paths_no_query_params = <<>>
    /\ verb_path_query_params = <<>>

IdleService ==
    /\ paths_grouped_by_service = <<>>
    /\ service_chunks = EmptyMap
    /\ verb_chunks_tagged_with_service = <<>>

IdleRoot ==
    /\ full_path = <<>>
    /\ root_path = <<>>

IdleExtract ==
    /\ data = None
    /\ request_data = None

NotLoaded == [t |-> "unset", v |-> <<>>]

IdleRepair ==
    /\ json_fix_retry = 0
    /\ json_str = None
    /\ attempt = 0
    /\ parse_attempts = 0
    /\ fix_calls = 0
    /\ json_value = NotLoaded

\* The keys whose tag goes from "number" to "string" between two shapes.
Widened(which, old, new) ==
    { <<which, k>> : k \in { k \in DOMAIN old \cap DOMAIN new :
                                old[k] = Tag("number") /\ new[k] = Tag("string") } }

\* A token read as name=value: the name before the first "=", the value after it.
HasEq(tok) == FirstIndex(tok, "=") > 0

NameOf(tok) == SubSeq(tok, 1, FirstIndex(tok, "=") - 1)

ValueOf(tok) == SubSeq(tok, FirstIndex(tok, "=") + 1, Len(tok))

IsDigits(s) == Len(s) >= 1 /\ \A i \in 1..Len(s) : s[i] \in Digit

\* What a request shows of each non-empty name that has a "=": whether its value
\* is a non-empty run of digits.
Observations(tokens) ==
    { <<NameOf(tokens[i]), IsDigits(ValueOf(tokens[i]))>> :
        i \in { i \in 1..Len(tokens) : HasEq(tokens[i]) /\ NameOf(tokens[i]) # <<>> } }

InitAccumulate ==
    /\ raised = "none"
    /\ all_query_params = EmptyMap
    /\ current_request_query_params = <<>>
    /\ all_body_attributes = EmptyMap
    /\ current_request_body = NoBody
    /\ qcount = 0
    /\ accumulating \in {"query", "body"}
    /\ widened = {}
    /\ qobserved = {}
    /\ IdleGroup
    /\ IdleService
    /\ IdleRoot
    /\ IdleExtract
    /\ IdleRepair

\* path_item["path"].split("?")[1].split("&") handed to _accumulate_query_params
AccumulateQuery ==
    /\ raised = "none"
    /\ accumulating = "query"
    /\ qcount < MaxRequests
    /\ \E q \in QueryStrings :
          LET all_query_params_list == Split(q, "&")
              st == accumulate_query_params(all_query_params, all_query_params_list)
          IN  /\ current_request_query_params' = all_query_params_list
              /\ all_query_params' = st.map
              /\ raised' = st.err
              /\ widened' = widened \cup Widened("query", all_query_params, st.map)
              /\ qobserved' = qobserved \cup Observations(all_query_params_list)
    /\ qcount' = qcount + 1
    /\ UNCHANGED <<bvars, accumulating, gvars, svars, rvars, evars, lvars>>

\* path_item["body"] handed to _accumulate_request_body_attributes
AccumulateBody ==
    /\ raised = "none"
    /\ accumulating = "body"
    /\ qcount < MaxRequests
    /\ \E body \in Bodies :
          LET all == accumulate_request_body_attributes(all_body_attributes, body)
          IN  /\ current_request_body' = body
              /\ all_body_attributes' = all
              /\ widened' = widened \cup Widened("body", all_body_attributes, all)
    /\ qcount' = qcount + 1
    /\ UNCHANGED <<raised, all_query_params, current_request_query_params,
                   accumulating, qobserved, gvars, svars, rvars, evars, lvars>>

NextAccumulate == AccumulateQuery \/ AccumulateBody

SpecAccumulate == InitAccumulate /\ [][NextAccumulate]_vars

-----------------------------------------------------------------------------
(* Specification SpecGroup: _extract_query_params_for_verb_path_pairs on a *)
(* list of up to MaxChunks VerbChunks (lines 103-161).                     *)

MaxChunks == 2

Chars_u == <<"/", "u">>

Chars_u5 == <<"/", "u", "/", "5">>

\* /u, /u?a=1, /u?a=x, /u?, /u?=5, /u?a=1&&b=1, /u/5, /u/5?b=1
GroupPaths ==
    { Chars_u,
      Chars_u \o <<"?", "a", "=", "1">>,
      Chars_u \o <<"?", "a", "=", "x">>,
      Chars_u \o <<"?">>,
      Chars_u \o <<"?", "=", "5">>,
      Chars_u \o <<"?", "a", "=", "1", "&", "&", "b", "=", "1">>,
      Chars_u5,
      Chars_u5 \o <<"?", "b", "=", "1">> }

GET == <<"G", "E", "T">>

POST == <<"P", "O", "S", "T">>

GroupVerbs == {GET, POST}

GroupBodies == { None, JDict(<< <<<<"a">>, JStr(<<"5">>)>> >>) }

GroupChunks ==
    { VerbChunk(p, v, b, <<>>, <<>>, <<"n">>) :
        p \in GroupPaths, v \in GroupVerbs, b \in GroupBodies }

InitGroup ==
    /\ raised = "none"
    /\ pc = "start"
    /\ extracted_verb_chunks \in SeqsUpTo(GroupChunks, MaxChunks)
    /\ distinct_paths_no_query_params = <<>>
    /\ verb_path_query_params = <<>>
    /\ IdleAccumulate
    /\ IdleService
    /\ IdleRoot
    /\ IdleExtract
    /\ IdleRepair

ExtractQueryParamsForVerbPathPairs ==
    /\ pc = "start"
    /\ \E paths \in Orderings(
                       get_all_distinct_paths_no_query_params(extracted_verb_chunks)) :
          LET out == extract_query_params_for_verb_path_pairs(
                         paths, extracted_verb_chunks)
          IN  /\ distinct_paths_no_query_params' = paths
              /\ verb_path_query_params' = out.shapes
              /\ raised' = out.err
    /\ pc' = "done"
    /\ UNCHANGED <<extracted_verb_chunks, qvars, bvars, hvars, svars, rvars, evars, lvars>>

NextGroup == ExtractQueryParamsForVerbPathPairs

SpecGroup == InitGroup /\ [][NextGroup]_vars

-----------------------------------------------------------------------------
(* Specification Spec: FrameworkGenerator.generate for a Postman source    *)
(* (framework_generator.py lines 105-129): the distinct paths are handed   *)
(* to the service classifier, whose answer is any grouping; then the route *)
(* shapes are mapped to services and the verb chunks are tagged.           *)

MaxServices == 2

\* /u, /u?a=1, /u?, /u/5
PipelinePaths ==
    { Chars_u, Chars_u \o <<"?", "a", "=", "1">>, Chars_u \o <<"?">>, Chars_u5 }

PipelineChunks ==
    { VerbChunk(p, v, None, <<>>, <<>>, <<"n">>) :
        p \in PipelinePaths, v \in GroupVerbs }

Services == {"users", "orders"}

Routes == { Chars_u, Chars_u5 }

Groupings ==
    { g \in SeqsUpTo(Services \X SUBSET Routes, MaxServices) :
        \A i, j \in 1..Len(g) : g[i][1] = g[j][1] => i = j }

Init ==
    /\ raised = "none"
    /\ pc = "start"
    /\ extracted_verb_chunks \in SeqsUpTo(PipelineChunks, MaxChunks)
    /\ distinct_paths_no_query_params = <<>>
    /\ verb_path_query_params = <<>>
    /\ IdleService
    /\ IdleAccumulate
    /\ IdleRoot
    /\ IdleExtract
    /\ IdleRepair

\* lines 111-119: llm_service.group_paths_by_service(all_distinct_paths_no_query_params)
GroupPathsByService ==
    /\ pc = "start"
    /\ \E g \in Groupings : paths_grouped_by_service' = g
    /\ pc' = "grouped"
    /\ UNCHANGED <<raised, extracted_verb_chunks, distinct_paths_no_query_params,
                   verb_path_query_params, service_chunks,
                   verb_chunks_tagged_with_service, qvars, bvars, hvars, rvars, evars, lvars>>

\* lines 121-123
MapVerbPathPairsToServices ==
    /\ pc = "grouped"
    /\ \E paths \in Orderings(
                       get_all_distinct_paths_no_query_params(extracted_verb_chunks)) :
          LET out == map_verb_path_pairs_to_services(
                         paths, extracted_verb_chunks, paths_grouped_by_service)
          IN  /\ distinct_paths_no_query_params' = paths
              /\ verb_path_query_params' = out.shapes
              /\ service_chunks' = out.services
              /\ raised' = out.err
              /\ pc' = IF out.err = "none" THEN "mapped" ELSE "aborted"
    /\ UNCHANGED <<extracted_verb_chunks, paths_grouped_by_service,
                   verb_chunks_tagged_with_service, qvars, bvars, hvars, rvars, evars, lvars>>

\* lines 125-129
AddServiceNameToVerbChunks ==
    /\ pc = "mapped"
    /\ \E out \in { AddServiceName(extracted_verb_chunks, paths_grouped_by_service) } :
          /\ extracted_verb_chunks' = out.verb_chunks
          /\ verb_chunks_tagged_with_service' = out.returned
    /\ pc' = "tagged"
    /\ UNCHANGED <<raised, distinct_paths_no_query_params,
                   verb_path_query_params, paths_grouped_by_service, service_chunks,
                   qvars, bvars, hvars, rvars, evars, lvars>>

Next ==
    \/ GroupPathsByService
    \/ MapVerbPathPairsToServices
    \/ AddServiceNameToVerbChunks

Spec == Init /\ [][Next]_vars

-----------------------------------------------------------------------------
(* Specification SpecRoot: the stripped path and the root path of one raw  *)
(* path (lines 153-157 and 253-258).                                       *)

MaxPathLen == 7

PathAlphabet == {"/", "a", "b", "?"}

InitRoot ==
    /\ raised = "none"
    /\ pc = "start"
    /\ full_path \in SeqsUpTo(PathAlphabet, MaxPathLen)
    /\ root_path = <<>>
    /\ extracted_verb_chunks = <<>>
    /\ distinct_paths_no_query_params = <<>>
    /\ verb_path_query_params = <<>>
    /\ IdleAccumulate
    /\ IdleService
    /\ IdleExtract
    /\ IdleRepair

GetRootPath ==
    /\ pc = "start"
    /\ root_path' = get_root_path(StripQuery(full_path))
    /\ pc' = "done"
    /\ UNCHANGED <<raised, full_path, extracted_verb_chunks,
                   distinct_paths_no_query_params, verb_path_query_params,
                   qvars, bvars, hvars, svars, evars, lvars>>

NextRoot == GetRootPath

SpecRoot == InitRoot /\ [][NextRoot]_vars

-----------------------------------------------------------------------------
(* Specification SpecLeaf: _extract_request_data on one leaf item (lines    *)
(* 208-248).  The leaf has a "request", and any combination of the optional *)
(* fields: display name, method, url (a string, a mapping with or without   *)
(* "raw"), body (a mapping with or without "raw"), up to MaxEvents events.  *)

MaxEvents == 2

\* Texts that are JSON once "\r" and "\n" are removed: {"a":"5"}, {"a":\n"x"}, {"a":"5\r\n"}, [1], {}, null, tr\nue,  {"a":{"b":-1.5e1}} , "5"
ValidRaws ==
    { <<"{", "\"", "a", "\"", ":", "\"", "5", "\"", "}">>,
      <<"{", "\"", "a", "\"", ":", "\n", "\"", "x", "\"", "}">>,
      <<"{", "\"", "a", "\"", ":", "\"", "5", "\r", "\n", "\"", "}">>,
      <<"[", "1", "]">>,
      <<"{", "}">>,
      <<"n", "u", "l", "l">>,
      <<"t", "r", "\n", "u", "e">>,
      <<" ", "{", "\"", "a", "\"", ":", "{", "\"", "b", "\"", ":", "-", "1", ".", "5", "e", "1", "}", "}", " ">>,
      <<"\"", "5", "\"">> }

\* Texts that are not: (empty), {bad, {"a":5,}, {"a":1} x, {'a':1}, {"a":"5, \n, {"a":01}, [1,]
InvalidRaws ==
    { <<>>,
      <<"{", "b", "a", "d">>,
      <<"{", "\"", "a", "\"", ":", "5", ",", "}">>,
      <<"{", "\"", "a", "\"", ":", "1", "}", " ", "x">>,
      <<"{", "'", "a", "'", ":", "1", "}">>,
      <<"{", "\"", "a", "\"", ":", "\"", "5">>,
      <<"\n">>,
      <<"{", "\"", "a", "\"", ":", "0", "1", "}">>,
      <<"[", "1", ",", "]">> }

\* A field that the mapping does not have.
Absent == [t |-> "absent", v |-> <<>>]

\* The mapping of the fields that are present, in the order given.
Mapping(fields) == JDict(SelectSeq(fields, LAMBDA f : f[2] # Absent))

LeafNames == { JStr(<<"G", "e", "t", " ", "U", "s", "e", "r">>), JStr(<<"g", "e", "t", "-", "u", "s", "e", "r">>) }

Urls ==
    { JStr(<<"/", "u", "?", "a", "=", "1">>),
      Mapping(<< <<"raw", JStr(<<"/", "u">>)>> >>),
      Mapping(<< <<"host", JList(<<JStr(<<"h">>)>>)>> >>) }

RequestBodies ==
    { Mapping(<< <<"mode", JStr(<<"r", "a", "w">>)>>, <<"raw", raw>> >>) :
        raw \in {Absent} \cup { JStr(t) : t \in ValidRaws \cup InvalidRaws } }

Requests ==
    { Mapping(<< <<"method", m>>, <<"url", u>>, <<"body", b>> >>) :
        m \in {Absent, JStr(GET)},
        u \in {Absent} \cup Urls,
        b \in {Absent} \cup RequestBodies }
    \cup { JStr(<<"/", "u">>) }

Exec(line) == Mapping(<< <<"exec", JList(<<JStr(line)>>)>> >>)

EventEntries ==
    { Mapping(<< <<"listen", JStr(Test)>>, <<"script", Exec(<<"t">>)>> >>),
      Mapping(<< <<"listen", JStr(Prerequest)>>, <<"script", Exec(<<"p">>)>> >>),
      Mapping(<< <<"listen", JStr(Test)>> >>),
      Mapping(<< <<"listen", JStr(Prerequest)>>, <<"script", EmptyDict>> >>) }

Events == { JList(es) : es \in SeqsUpTo(EventEntries, MaxEvents) }

Leaves ==
    { Mapping(<< <<"name", n>>, <<"request", r>>, <<"event", e>> >>) :
        n \in {Absent} \cup LeafNames,
        r \in Requests,
        e \in {Absent} \cup Events }

InitLeaf ==
    /\ raised = "none"
    /\ pc = "start"
    /\ data \in Leaves
    /\ request_data = None
    /\ extracted_verb_chunks = <<>>
    /\ distinct_paths_no_query_params = <<>>
    /\ verb_path_query_params = <<>>
    /\ IdleAccumulate
    /\ IdleService
    /\ IdleRoot
    /\ IdleRepair

ExtractRequestData ==
    /\ pc = "start"
    /\ \E out \in {extract_request_data(data)} :
          /\ request_data' = out.result
          /\ raised' = out.err
    /\ pc' = "done"
    /\ UNCHANGED <<data, extracted_verb_chunks, distinct_paths_no_query_params,
                   verb_path_query_params, qvars, bvars, hvars, svars, rvars, lvars>>

NextLeaf == ExtractRequestData

SpecLeaf == InitLeaf /\ [][NextLeaf]_vars

-----------------------------------------------------------------------------
(* Specification SpecExtract: extract_verb_chunks on a collection tree      *)
(* (lines 14-45): a top mapping with "info" and an "item" list of no, one   *)
(* or two nodes, a node being a leaf, a folder of up to MaxItems leaves, or *)
(* a folder that holds such a folder.                                       *)

MaxItems == 2

\* {"name": "Get User", "request": {"method": "GET", "url": "/u"}}
Leaf_GetUser ==
    Mapping(<< <<"name", JStr(<<"G", "e", "t", " ", "U", "s", "e", "r">>)>>,
               <<"request", Mapping(<< <<"method", JStr(GET)>>,
                                       <<"url", JStr(Chars_u)>> >>)>> >>)

\* {"request": {"method": "POST", "url": {"raw": "/u/5"}, "body": {"raw": "{}"}},
\*  "name": "get-user", "event": [{"listen": "test", ...}], "response": []}
Leaf_get_user ==
    Mapping(<< <<"request",
                 Mapping(<< <<"method", JStr(POST)>>,
                            <<"url", Mapping(<< <<"raw", JStr(Chars_u5)>> >>)>>,
                            <<"body", Mapping(<< <<"raw", JStr(<<"{", "}">>)>> >>)>> >>)>>,
               <<"name", JStr(<<"g", "e", "t", "-", "u", "s", "e", "r">>)>>,
               <<"event", JList(<< Mapping(<< <<"listen", JStr(Test)>>,
                                              <<"script", Exec(<<"t">>)>> >>) >>)>>,
               <<"response", EmptyList>> >>)

\* {"name": "List", "request": {"method": "GET", "url": "/u?a=1"}}
Leaf_List ==
    Mapping(<< <<"name", JStr(<<"L", "i", "s", "t">>)>>,
               <<"request", Mapping(<< <<"method", JStr(GET)>>,
                                       <<"url", JStr(Chars_u \o <<"?", "a", "=", "1">>)>> >>)>> >>)

\* {"id": "1", "name": "Add", "protocolProfileBehavior": {"name": "x"},
\*  "request": {"method": "POST", "url": {"raw": "/u"}, "auth": {"type": "noauth"}},
\*  "response": []}
Leaf_Add ==
    Mapping(<< <<"id", JStr(<<"1">>)>>,
               <<"name", JStr(<<"A", "d", "d">>)>>,
               <<"protocolProfileBehavior", Mapping(<< <<"name", JStr(<<"x">>)>> >>)>>,
               <<"request",
                 Mapping(<< <<"method", JStr(POST)>>,
                            <<"url", Mapping(<< <<"raw", JStr(Chars_u)>> >>)>>,
                            <<"auth", Mapping(<< <<"type", JStr(<<"n", "o", "a", "u", "t", "h">>)>> >>)>> >>)>>,
               <<"response", EmptyList>> >>)

TreeLeaves == { Leaf_GetUser, Leaf_get_user, Leaf_List, Leaf_Add }

\* {"name": "f", "item": [...], "event": []}
Folder(items) ==
    Mapping(<< <<"name", JStr(<<"f">>)>>, <<"item", JList(items)>>,
               <<"event", EmptyList>> >>)

Folders == { Folder(items) : items \in SeqsUpTo(TreeLeaves, MaxItems) }

\* A folder whose one item is a folder.
NestedFolders == { Folder(<<folder>>) : folder \in Folders }

Nodes == TreeLeaves \cup Folders \cup NestedFolders

Collection(items) ==
    Mapping(<< <<"info", Mapping(<< <<"name", JStr(<<"c">>)>> >>)>>,
               <<"item", JList(items)>> >>)

Trees ==
    { Collection(<<>>) }
        \cup { Collection(<<node>>) : node \in Nodes }
        \cup { Collection(<<node, other>>) : node \in Nodes, other \in Nodes }

InitExtract ==
    /\ raised = "none"
    /\ pc = "start"
    /\ data \in Trees
    /\ request_data = None
    /\ extracted_verb_chunks = <<>>
    /\ distinct_paths_no_query_params = <<>>
    /\ verb_path_query_params = <<>>
    /\ IdleAccumulate
    /\ IdleService
    /\ IdleRoot
    /\ IdleRepair

\* process_json (lines 14-17): return self.extract_verb_chunks(data)
ExtractVerbChunks ==
    /\ pc = "start"
    /\ \E out \in {extract_verb_chunks(data)} :
          /\ extracted_verb_chunks' = out.results
          /\ raised' = out.err
    /\ pc' = "done"
    /\ UNCHANGED <<data, request_data, distinct_paths_no_query_params,
                   verb_path_query_params, qvars, bvars, hvars, svars, rvars, lvars>>

NextExtract == ExtractVerbChunks

SpecExtract == InitExtract /\ [][NextExtract]_vars

-----------------------------------------------------------------------------
(* Specification SpecRepair: LLMService._load_json_safely                   *)
(* (services/llm_service.py lines 151-164) on what an AI chain returned,    *)
(* with _fix_json (lines 275-283) as its repair step.  A chain returns     *)
(* response.content or the result of a tool (lines 132-142): a str, or a   *)
(* value that is not a str.  SpecRepairFair adds that a step that can be   *)
(* taken is taken: the code is sequential and a call of the chain returns  *)
(* or raises.                                                              *)

MaxJsonFixRetry == 4

\* null, [1], [1, {, and the empty text
JsonTexts ==
    { <<"n", "u", "l", "l">>, <<"[", "1", "]">>, <<"[", "1">>, <<"{">>, <<>> }

\* What a chain gives: a str, or a list (content blocks, the result of a tool).
ChainOutputs == { JStr(text) : text \in JsonTexts } \cup { JList(<<>>) }

InitRepair ==
    /\ raised = "none"
    /\ pc = "parse"
    /\ json_fix_retry \in 0..MaxJsonFixRetry
    /\ json_str \in ChainOutputs
    /\ attempt = 0
    /\ parse_attempts = 0
    /\ fix_calls = 0
    /\ json_value = NotLoaded
    /\ extracted_verb_chunks = <<>>
    /\ distinct_paths_no_query_params = <<>>
    /\ verb_path_query_params = <<>>
    /\ IdleAccumulate
    /\ IdleService
    /\ IdleRoot
    /\ IdleExtract

\* A variant of line 159 that also repairs after the last attempt.
should_fix_after_last(a, n) == a < n

\* line 159: attempt < self.config.json_fix_retry - 1
should_fix(a, n) == a < n - 1

\* lines 155-164, one iteration up to the call of _fix_json: json.loads returns
\* (line 157), raises JSONDecodeError (lines 158-164), or raises TypeError on a
\* value that is not a str, which no handler catches.
LoadJson ==
    /\ pc = "parse"
    /\ attempt < json_fix_retry
    /\ parse_attempts' = parse_attempts + 1
    /\ IF json_str.t # "str"
       THEN /\ raised' = "TypeError"
            /\ pc' = "raised"
            /\ json_value' = json_value
       ELSE \E out \in { json_loads(json_str.v) } :
               IF out.ok
               THEN /\ json_value' = out.val
                    /\ pc' = "returned"
                    /\ raised' = raised
               ELSE IF should_fix(attempt, json_fix_retry)
               THEN /\ pc' = "fix"
                    /\ UNCHANGED <<raised, json_value>>
               ELSE /\ raised' = "Exception"
                    /\ pc' = "raised"
                    /\ json_value' = json_value
    /\ UNCHANGED <<json_fix_retry, json_str, attempt, fix_calls,
                   extracted_verb_chunks, distinct_paths_no_query_params,
                   verb_path_query_params, qvars, bvars, hvars, svars, rvars, evars>>

\* line 160 and lines 275-283: json_str = self._fix_json(json_str); the chain
\* gives any of its outputs, and the loop goes to its next iteration.
FixJsonReturns ==
    /\ pc = "fix"
    /\ fix_calls' = fix_calls + 1
    /\ \E out \in ChainOutputs : json_str' = out
    /\ attempt' = attempt + 1
    /\ pc' = "parse"
    /\ UNCHANGED <<raised, json_fix_retry, parse_attempts, json_value,
                   extracted_verb_chunks, distinct_paths_no_query_params,
                   verb_path_query_params, qvars, bvars, hvars, svars, rvars, evars>>

\* lines 280-282: the call of the chain raises.
FixJsonRaises ==
    /\ pc = "fix"
    /\ fix_calls' = fix_calls + 1
    /\ raised' = "ChainError"
    /\ pc' = "raised"
    /\ UNCHANGED <<json_fix_retry, json_str, attempt, parse_attempts, json_value,
                   extracted_verb_chunks, distinct_paths_no_query_params,
                   verb_path_query_params, qvars, bvars, hvars, svars, rvars, evars>>

\* line 155: range(json_fix_retry) is exhausted, the function ends without a
\* return statement and gives None.
LoopEnds ==
    /\ pc = "parse"
    /\ attempt >= json_fix_retry
    /\ json_value' = None
    /\ pc' = "returned"
    /\ UNCHANGED <<raised, json_fix_retry, json_str, attempt, parse_attempts, fix_calls,
                   extracted_verb_chunks, distinct_paths_no_query_params,
                   verb_path_query_params, qvars, bvars, hvars, svars, rvars, evars>>

NextRepair ==
    \/ LoadJson
    \/ FixJsonReturns
    \/ FixJsonRaises
    \/ LoopEnds

SpecRepair == InitRepair /\ [][NextRepair]_vars

SpecRepairFair == SpecRepair /\ WF_vars(NextRepair)

-----------------------------------------------------------------------------
(* Properties of the accumulators, under SpecAccumulate.                   *)

\* No step of either accumulator turns a "string" tag into "number".
NeverNarrows(old, new) ==
    \A k \in DOMAIN old :
        old[k] = Tag("string") => k \in DOMAIN new /\ new[k] # Tag("number")

\* Every single observation of a known query parameter with a value: a "number"
\* tag becomes "string" when the value is not numeric, and a "string" tag stays.
QueryObservationWidens ==
    \A tok \in QueryTokens :
        LET param_array == Split(tok, "=")
            k   == param_array[1]
            new == accumulate_one_query_param(
                       [map |-> all_query_params, err |-> "none"], tok).map
        IN  (k \in DOMAIN all_query_params /\ Len(param_array) > 1) =>
                /\ (all_query_params[k] = Tag("number") /\ ~numeric_only(param_array[2]))
                       => new[k] = Tag("string")
                /\ all_query_params[k] = Tag("string") => new[k] = Tag("string")

\* The same for every single observation of a known body key with a string value.
BodyObservationWidens ==
    \A k \in BodyKeys, value \in BodyValues :
        LET new == accumulate_one_body_attribute(all_body_attributes, k, value)
        IN  (k \in DOMAIN all_body_attributes /\ value.t = "str") =>
                /\ (all_body_attributes[k] = Tag("number") /\ ~numeric_only(value.v))
                       => new[k] = Tag("string")
                /\ all_body_attributes[k] = Tag("string") => new[k] = Tag("string")

\* The part of C2 that holds: once a tag is "string" no accumulate step of either
\* accumulator makes it "number"; an observation of a "number" attribute with a
\* non-numeric string value makes it "string", and an observation of a "string"
\* attribute with any string value, numeric or not, leaves it "string".
C2_WideningMonotone ==
    /\ [](QueryObservationWidens /\ BodyObservationWidens)
    /\ [][/\ NeverNarrows(all_query_params, all_query_params')
          /\ NeverNarrows(all_body_attributes, all_body_attributes')]_vars

\* A state where that part applies: a query parameter that was widened from
\* "number" to "string" by an earlier request is observed by the last request
\* with numeric values only, and is still "string".
C2_Witness ==
    \E k \in DOMAIN all_query_params :
        /\ <<"query", k>> \in widened
        /\ all_query_params[k] = Tag("string")
        /\ \E i \in 1..Len(current_request_query_params) :
               Split(current_request_query_params[i], "=")[1] = k
        /\ \A i \in 1..Len(current_request_query_params) :
               LET param_array == Split(current_request_query_params[i], "=")
               IN  param_array[1] = k =>
                       Len(param_array) > 1 /\ numeric_only(param_array[2])

ExpectedQueryParams ==
    [ n \in { o[1] : o \in qobserved } |->
        IF \A o \in qobserved : o[1] = n => o[2]
        THEN Tag("number") ELSE Tag("string") ]

\* C4: after the tokens of any sequence of requests, _accumulate_query_params has
\* returned and its map holds exactly the non-empty names seen with a "=", each
\* tagged "number" if all its values are runs of digits and "string" otherwise.
C4_QueryTyping ==
    /\ raised = "none"
    /\ all_query_params = ExpectedQueryParams

\* The raw value of key k in a decoded body, Unobserved when the body has no
\* key k.
Unobserved == [t |-> "unobserved", v |-> <<>>]

RawValue(body, k) ==
    IF \E i \in 1..Len(body.v) : body.v[i][1] = k
    THEN body.v[CHOOSE i \in 1..Len(body.v) : body.v[i][1] = k][2]
    ELSE Unobserved

\* C14: a body accumulation leaves every entry of the shape as it was, unless
\* the entry is "number" and the body has a non-numeric string under its key; a
\* nested shape is not replaced when its key comes again with another object, a
\* list or a string.
C14_PriorEntriesKept ==
    [][\A k \in DOMAIN all_body_attributes :
          /\ k \in DOMAIN all_body_attributes'
          /\ all_body_attributes'[k] # all_body_attributes[k] =>
                /\ all_body_attributes[k] = Tag("number")
                /\ RawValue(current_request_body', k).t = "str"
                /\ ~numeric_only(RawValue(current_request_body', k).v)]_vars

\* C15: the entry <k>Object is written only by a body that has an object or a
\* list under the raw key k, and no body overwrites a nested shape or an "array"
\* tag with the tag of a string.
C15_SyntheticKeyIsolation ==
    [][/\ \A k \in BodyKeys :
             (/\ ObjectKey(k) \in DOMAIN all_body_attributes'
              /\ \/ ObjectKey(k) \notin DOMAIN all_body_attributes
                 \/ all_body_attributes'[ObjectKey(k)] # all_body_attributes[ObjectKey(k)])
                 => RawValue(current_request_body', k).t \in {"dict", "list"}
       /\ \A e \in DOMAIN all_body_attributes :
             all_body_attributes[e].tag \in {"object", "array"} =>
                 all_body_attributes'[e].tag \notin {"string", "number"}]_vars

\* Every key of a decoded object has an entry in the shape, under the key or
\* under <key>Object, and so have the keys of its nested objects.
RECURSIVE EveryKeyTagged(_, _)
EveryKeyTagged(shape, obj) ==
    \A i \in 1..Len(obj.v) :
        /\ obj.v[i][1] \in DOMAIN shape \/ ObjectKey(obj.v[i][1]) \in DOMAIN shape
        /\ (obj.v[i][2].t = "dict" /\ ObjectKey(obj.v[i][1]) \in DOMAIN shape) =>
               EveryKeyTagged(shape[ObjectKey(obj.v[i][1])].shape, obj.v[i][2])

\* C16: after a body has been accumulated every key of it has an entry in the
\* shape, whatever the JSON type of its value.
C16_EveryKeyTagged ==
    current_request_body # NoBody =>
        EveryKeyTagged(all_body_attributes, current_request_body)

-----------------------------------------------------------------------------
(* Properties of the route grouping, under SpecGroup.                      *)

\* The tokens of the query part of a raw path, none when it has no "?".
QueryTokensOf(path) ==
    IF FirstIndex(path, "?") = 0 THEN <<>>
    ELSE Split(SubSeq(path, FirstIndex(path, "?") + 1, Len(path)), "&")

\* The RouteShapes built for path p and verb v.
ShapesFor(p, v) ==
    { j \in 1..Len(verb_path_query_params) :
        verb_path_query_params[j].path = p /\ verb_path_query_params[j].verb = v }

Chunk_u_a1 == VerbChunk(Chars_u \o <<"?", "a", "=", "1">>, GET, None, <<>>, <<>>, <<"n">>)

Chunk_u_ax == VerbChunk(Chars_u \o <<"?", "a", "=", "x">>, GET, None, <<>>, <<>>, <<"n">>)

\* C3: once the grouping is over, every (stripped path, verb) pair among the
\* chunks has exactly one RouteShape, whose query_params hold every named
\* parameter of every request of the pair ("string" if a value is not numeric);
\* GET /u?a=1 and GET /u?a=x give the one RouteShape GET /u with {a: "string"}.
C3_OneRouteShapePerPair ==
    pc = "done" =>
        /\ \A n \in 1..Len(extracted_verb_chunks) :
              LET chunk == extracted_verb_chunks[n]
                  js    == ShapesFor(StripQuery(chunk.path), chunk.verb)
              IN  /\ Cardinality(js) = 1
                  /\ \A j \in js, o \in Observations(QueryTokensOf(chunk.path)) :
                        LET qp == verb_path_query_params[j].query_params
                        IN  /\ o[1] \in DOMAIN qp
                            /\ ~o[2] => qp[o[1]] = Tag("string")
        /\ extracted_verb_chunks = <<Chunk_u_a1, Chunk_u_ax>> =>
              /\ Len(verb_path_query_params) = 1
              /\ verb_path_query_params[1].path = Chars_u
              /\ verb_path_query_params[1].verb = GET
              /\ verb_path_query_params[1].query_params = (<<"a">> :> Tag("string"))

\* The fold of the query accumulator, from chunk i on, over the chunks with verb
\* v whose raw path starts with p.
RECURSIVE FoldQueryParams(_, _, _, _)
FoldQueryParams(all, p, v, i) ==
    IF i > Len(extracted_verb_chunks) THEN all
    ELSE FoldQueryParams(
             IF /\ extracted_verb_chunks[i].verb = v
                /\ StartsWith(extracted_verb_chunks[i].path, p)
                /\ QueryTokensOf(extracted_verb_chunks[i].path) # <<>>
             THEN accumulate_query_params(
                      all, QueryTokensOf(extracted_verb_chunks[i].path)).map
             ELSE all,
             p, v, i + 1)

\* The same fold of the body accumulator.
RECURSIVE FoldBodyAttributes(_, _, _, _)
FoldBodyAttributes(all, p, v, i) ==
    IF i > Len(extracted_verb_chunks) THEN all
    ELSE FoldBodyAttributes(
             IF /\ extracted_verb_chunks[i].verb = v
                /\ StartsWith(extracted_verb_chunks[i].path, p)
                /\ extracted_verb_chunks[i].body # None
             THEN accumulate_request_body_attributes(all, extracted_verb_chunks[i].body)
             ELSE all,
             p, v, i + 1)

\* C13: the query_params and the body of every RouteShape (p, v) are the fold of
\* the accumulators, in extraction order, over exactly the chunks with verb v
\* whose raw path starts with p: requests to sub-paths included, other verbs
\* excluded.
C13_PrefixMatchAccumulation ==
    (pc = "done" /\ raised = "none") =>
        \A j \in 1..Len(verb_path_query_params) :
            /\ verb_path_query_params[j].query_params =
                   FoldQueryParams(EmptyMap, verb_path_query_params[j].path,
                                   verb_path_query_params[j].verb, 1)
            /\ verb_path_query_params[j].body =
                   FoldBodyAttributes(EmptyMap, verb_path_query_params[j].path,
                                      verb_path_query_params[j].verb, 1)

Chunk_u5_b1 ==
    VerbChunk(Chars_u5 \o <<"?", "b", "=", "1">>, GET,
              JDict(<< <<<<"a">>, JStr(<<"5">>)>> >>), <<>>, <<>>, <<"n">>)

Chunk_post_u_a1 ==
    VerbChunk(Chars_u \o <<"?", "a", "=", "1">>, POST, None, <<>>, <<>>, <<"n">>)

\* C13 witness: GET /u/5?b=1 with body {"a": "5"} and POST /u?a=1 give a
\* RouteShape GET /u with the parameter b and the attribute a of the request to
\* the sub-path, and without the parameter a of the POST.
C13_Witness ==
    /\ pc = "done"
    /\ raised = "none"
    /\ extracted_verb_chunks = <<Chunk_u5_b1, Chunk_post_u_a1>>
    /\ \E j \in ShapesFor(Chars_u, GET) :
          /\ verb_path_query_params[j].query_params = (<<"b">> :> Tag("number"))
          /\ verb_path_query_params[j].body = (<<"a">> :> Tag("number"))

\* C19: every RouteShape (p, v) is backed by a chunk with verb v whose
\* query-stripped path is p.
C19_RouteShapeIsBacked ==
    pc = "done" =>
        \A j \in 1..Len(verb_path_query_params) :
            \E n \in 1..Len(extracted_verb_chunks) :
                /\ extracted_verb_chunks[n].verb = verb_path_query_params[j].verb
                /\ StripQuery(extracted_verb_chunks[n].path) =
                       verb_path_query_params[j].path

-----------------------------------------------------------------------------
(* Properties of the pipeline, under Spec.                                 *)

\* C7: map_verb_path_pairs_to_services never raises, whatever the paths of the
\* verb chunks (bodies are null here), also for an empty query part.
C7_NeverRaises == raised = "none"

\* The services, by their place in the grouping, that list the stripped path.
Hits(verb_chunk) ==
    { i \in 1..Len(paths_grouped_by_service) :
        StripQuery(verb_chunk.path) \in paths_grouped_by_service[i][2] }

\* C8: every tagged chunk carries the first service, in the order of the
\* grouping, that lists its query-stripped path, and no service field when no
\* service lists it.
C8_FirstMatchingService ==
    pc = "tagged" =>
        /\ Len(verb_chunks_tagged_with_service) = Len(extracted_verb_chunks)
        /\ \A n \in 1..Len(extracted_verb_chunks) :
              LET hits   == Hits(extracted_verb_chunks[n])
                  tagged == verb_chunks_tagged_with_service[n]
              IN  IF hits = {}
                  THEN "service" \notin DOMAIN tagged
                  ELSE /\ "service" \in DOMAIN tagged
                       /\ \E i \in hits :
                             /\ tagged.service = paths_grouped_by_service[i][1]
                             /\ \A j \in hits : i <= j

\* C8 witness: a chunk with a query part whose stripped path is listed under two
\* services is tagged with the first, and another chunk is left untagged.
C8_Witness ==
    /\ pc = "tagged"
    /\ \E n \in 1..Len(extracted_verb_chunks) :
          /\ FirstIndex(extracted_verb_chunks[n].path, "?") > 0
          /\ Cardinality(Hits(extracted_verb_chunks[n])) = 2
          /\ verb_chunks_tagged_with_service[n].service = paths_grouped_by_service[1][1]
    /\ \E n \in 1..Len(extracted_verb_chunks) :
          "service" \notin DOMAIN verb_chunks_tagged_with_service[n]

\* The RouteShapes, in the order they were built, whose path is in routes.
ListedShapes(routes) ==
    SelectSeq(verb_path_query_params, LAMBDA shape : shape.path \in routes)

\* The {verb, path, query_params, body} record of a RouteShape.
WithoutRootPath(shape) ==
    [ f \in {"verb", "path", "query_params", "body"} |-> shape[f] ]

\* C11: once map_verb_path_pairs_to_services has returned, each service of the
\* grouping that lists the path of at least one RouteShape is a key of the
\* result, mapped to the records without root_path of exactly the RouteShapes
\* whose path it lists (a RouteShape listed under two services is under both);
\* no other service is a key, so no list is empty.
C11_ServiceChunks ==
    pc \in {"mapped", "tagged"} =>
        /\ \A i \in 1..Len(paths_grouped_by_service) :
              LET service == paths_grouped_by_service[i][1]
                  listed  == ListedShapes(paths_grouped_by_service[i][2])
              IN  IF listed = <<>>
                  THEN service \notin DOMAIN service_chunks
                  ELSE /\ service \in DOMAIN service_chunks
                       /\ service_chunks[service] =
                              [ n \in 1..Len(listed) |-> WithoutRootPath(listed[n]) ]
        /\ \A service \in DOMAIN service_chunks :
              /\ service_chunks[service] # <<>>
              /\ \E i \in 1..Len(paths_grouped_by_service) :
                    paths_grouped_by_service[i][1] = service

\* C11 witness: one RouteShape is listed under two services and is in the list
\* of both, and another RouteShape is listed under no service.
C11_Witness ==
    /\ pc = "mapped"
    /\ Len(paths_grouped_by_service) = 2
    /\ \E n \in 1..Len(verb_path_query_params) :
          \A i \in 1..2 :
              /\ verb_path_query_params[n].path \in paths_grouped_by_service[i][2]
              /\ paths_grouped_by_service[i][1] \in DOMAIN service_chunks
    /\ \E n \in 1..Len(verb_path_query_params) :
          \A i \in 1..2 :
              verb_path_query_params[n].path \notin paths_grouped_by_service[i][2]

ChunkFields == {"path", "verb", "body", "prerequest", "script", "name"}

\* C17: the call of add_service_name_to_verb_chunks leaves the list it is given
\* and every chunk of it as they were, and returns a list of the same length and
\* order whose chunks equal the given ones in path, verb, body, prerequest,
\* script and name and have no other field but service.
C17_TaggingLeavesInput ==
    [][(pc = "mapped" /\ pc' = "tagged") =>
          /\ extracted_verb_chunks' = extracted_verb_chunks
          /\ \A n \in 1..Len(extracted_verb_chunks') :
                "service" \notin DOMAIN extracted_verb_chunks'[n]
          /\ Len(verb_chunks_tagged_with_service') = Len(extracted_verb_chunks)
          /\ \A n \in 1..Len(extracted_verb_chunks) :
                /\ DOMAIN verb_chunks_tagged_with_service'[n] \ {"service"} = ChunkFields
                /\ \A f \in ChunkFields :
                      verb_chunks_tagged_with_service'[n][f] = extracted_verb_chunks[n][f]
      ]_vars

\* C17 witness: two chunks have been tagged, the first with a service, the second
\* with none.
C17_Witness ==
    /\ pc = "tagged"
    /\ Len(verb_chunks_tagged_with_service) = 2
    /\ "service" \in DOMAIN verb_chunks_tagged_with_service[1]
    /\ "service" \notin DOMAIN verb_chunks_tagged_with_service[2]
    /\ Len(extracted_verb_chunks) = 2

\* The grouping lists every distinct stripped path under some service.
GroupingCoversPaths ==
    \A p \in get_all_distinct_paths_no_query_params(extracted_verb_chunks) :
        \E i \in 1..Len(paths_grouped_by_service) : p \in paths_grouped_by_service[i][2]

\* C18: when the grouping lists every distinct stripped path under a service,
\* every tagged chunk carries a service, and the list built for that service has
\* a record with the verb and the stripped path of the chunk.
C18_TaggingAgrees ==
    (pc = "tagged" /\ GroupingCoversPaths) =>
        \A n \in 1..Len(verb_chunks_tagged_with_service) :
            /\ "service" \in DOMAIN verb_chunks_tagged_with_service[n]
            /\ verb_chunks_tagged_with_service[n].service \in DOMAIN service_chunks
            /\ \E m \in 1..Len(service_chunks[verb_chunks_tagged_with_service[n].service]) :
                  LET record ==
                          service_chunks[verb_chunks_tagged_with_service[n].service][m]
                  IN  /\ record.verb = verb_chunks_tagged_with_service[n].verb
                      /\ record.path =
                             StripQuery(verb_chunks_tagged_with_service[n].path)

\* C18 witness: GET /u?a=1 and POST /u/5 under a grouping of two services that
\* both list /u, the second listing /u/5 too.
C18_Witness ==
    /\ pc = "tagged"
    /\ GroupingCoversPaths
    /\ Len(verb_chunks_tagged_with_service) = 2
    /\ verb_chunks_tagged_with_service[1].path = Chars_u \o <<"?", "a", "=", "1">>
    /\ verb_chunks_tagged_with_service[1].verb = GET
    /\ verb_chunks_tagged_with_service[2].path = Chars_u5
    /\ verb_chunks_tagged_with_service[2].verb = POST
    /\ Len(paths_grouped_by_service) = 2
    /\ Chars_u \in paths_grouped_by_service[1][2] \cap paths_grouped_by_service[2][2]
    /\ Chars_u5 \in paths_grouped_by_service[2][2] \ paths_grouped_by_service[1][2]

-----------------------------------------------------------------------------
(* Properties of the root path, under SpecRoot.                            *)

\* The path without its query part: the text before the first "?".
Stripped(path) ==
    IF FirstIndex(path, "?") = 0 THEN path
    ELSE SubSeq(path, 1, FirstIndex(path, "?") - 1)

\* s[i..j] is a "/", a non-empty segment without "/", and a "/", and the first
\* "/" is not preceded by another one.
IsSegment(s, i, j) ==
    /\ i + 1 < j
    /\ s[i] = "/" /\ s[j] = "/"
    /\ (i = 1 \/ s[i - 1] # "/")
    /\ \A k \in (i + 1)..(j - 1) : s[k] # "/"

\* C9: the root path of a raw path is the text of the first segment of its
\* stripped path that sits between a "/" not preceded by a "/" and the next "/",
\* and the empty string when there is no such segment.
C9_RootPath ==
    pc = "done" =>
        LET s == Stripped(full_path)
        IN  IF \E i, j \in 1..Len(s) : IsSegment(s, i, j)
            THEN \E i, j \in 1..Len(s) :
                    /\ IsSegment(s, i, j)
                    /\ \A i2, j2 \in 1..Len(s) : IsSegment(s, i2, j2) => i <= i2
                    /\ root_path = SubSeq(s, i + 1, j - 1)
            ELSE root_path = <<>>

\* C9 witness: a path that starts with "//" (as after "http:") and has a query
\* part, whose root path is the segment after the skipped "//x/".
C9_Witness ==
    /\ pc = "done"
    /\ StartsWith(full_path, <<"/", "/">>)
    /\ FirstIndex(full_path, "?") > 0
    /\ root_path # <<>>

-----------------------------------------------------------------------------
(* Properties of the extraction of one leaf, under SpecLeaf.               *)

RequestOf(leaf) == Item(leaf, "request")

RequestIsMapping(leaf) == RequestOf(leaf).t = "dict"

\* C5: _extract_request_data returns for every leaf, whichever of its optional
\* fields are missing, and each missing field has its empty default in the
\* VerbChunk returned: verb "", path "", script [], prerequest [], name "".
C5_MissingFieldsDefault ==
    pc = "done" =>
        /\ raised = "none"
        /\ (~RequestIsMapping(data) \/ ~HasKey(RequestOf(data), "method"))
               => request_data.verb = <<>>
        /\ (~RequestIsMapping(data) \/ ~HasKey(RequestOf(data), "url"))
               => request_data.path = <<>>
        /\ (RequestIsMapping(data) /\ HasKey(RequestOf(data), "url")
               /\ Item(RequestOf(data), "url").t = "dict"
               /\ ~HasKey(Item(RequestOf(data), "url"), "raw"))
               => request_data.path = <<>>
        /\ ~HasKey(data, "event")
               => request_data.script = <<>> /\ request_data.prerequest = <<>>
        /\ ~HasKey(data, "name") => request_data.name = <<>>

\* The leaf has a body mapping whose "raw" is missing or is one of the texts
\* that are not JSON.
BodyIsMalformed(leaf) ==
    /\ RequestIsMapping(leaf)
    /\ HasKey(RequestOf(leaf), "body")
    /\ LET body == Item(RequestOf(leaf), "body")
       IN  ~HasKey(body, "raw") \/ Item(body, "raw").v \in InvalidRaws

\* The same leaf with the body {"raw": "{}"}.
WithValidBody(leaf) ==
    JDict([i \in DOMAIN leaf.v |->
        IF leaf.v[i][1] # "request" THEN leaf.v[i]
        ELSE <<"request",
               JDict([j \in DOMAIN leaf.v[i][2].v |->
                   IF leaf.v[i][2].v[j][1] # "body" THEN leaf.v[i][2].v[j]
                   ELSE <<"body", Mapping(<< <<"raw", JStr(<<"{", "}">>)>> >>)>>])>>])

\* C6: for a leaf whose body has no "raw" or a "raw" that is not JSON,
\* _extract_request_data raises nothing and returns a VerbChunk with body null
\* and with the verb, path, script, prerequest and name of the same leaf with a
\* valid body.
C6_MalformedBodyIsNull ==
    (pc = "done" /\ BodyIsMalformed(data)) =>
        /\ raised = "none"
        /\ request_data.body = None
        /\ LET valid == extract_request_data(WithValidBody(data)).result
           IN  /\ request_data.verb = valid.verb
               /\ request_data.path = valid.path
               /\ request_data.script = valid.script
               /\ request_data.prerequest = valid.prerequest
               /\ request_data.name = valid.name

-----------------------------------------------------------------------------
(* Properties of the extraction of a tree, under SpecExtract.              *)

\* C1: the VerbChunks returned by extract_verb_chunks have pairwise distinct
\* names, wherever in the tree the leaves they come from are.
C1_NamesPairwiseDistinct ==
    pc = "done" =>
        \A i, j \in 1..Len(extracted_verb_chunks) :
            extracted_verb_chunks[i].name = extracted_verb_chunks[j].name => i = j

\* The leaves of a node in depth-first, left-to-right order: a mapping with an
\* "item" list is a folder, a mapping with a "request" is a leaf.
RECURSIVE LeavesOf(_), LeavesOfItems(_, _)
LeavesOf(node) ==
    IF HasKey(node, "item") THEN LeavesOfItems(Item(node, "item").v, 1)
    ELSE IF HasKey(node, "request") THEN <<node>>
    ELSE <<>>

LeavesOfItems(items, i) ==
    IF i > Len(items) THEN <<>>
    ELSE LeavesOf(items[i]) \o LeavesOfItems(items, i + 1)

\* The name, verb and path the leaf itself shows.
LeafName(leaf) == to_camel_case(Item(leaf, "name").v)

LeafVerb(leaf) == Item(Item(leaf, "request"), "method").v

LeafPath(leaf) ==
    IF Item(Item(leaf, "request"), "url").t = "dict"
    THEN Item(Item(Item(leaf, "request"), "url"), "raw").v
    ELSE Item(Item(leaf, "request"), "url").v

DistinctLeafNames(leaves) ==
    \A i, j \in 1..Len(leaves) : LeafName(leaves[i]) = LeafName(leaves[j]) => i = j

\* C12: for a tree whose leaves have pairwise distinct derived names, the list
\* extract_verb_chunks returns has one VerbChunk per leaf and no other, in the
\* depth-first left-to-right order of the leaves, whatever other keys the leaves
\* and the folders carry.
C12_OneRecordPerLeaf ==
    (pc = "done" /\ raised = "none" /\ DistinctLeafNames(LeavesOf(data))) =>
        /\ Len(extracted_verb_chunks) = Len(LeavesOf(data))
        /\ \A n \in 1..Len(extracted_verb_chunks) :
              /\ extracted_verb_chunks[n].name = LeafName(LeavesOf(data)[n])
              /\ extracted_verb_chunks[n].verb = LeafVerb(LeavesOf(data)[n])
              /\ extracted_verb_chunks[n].path = LeafPath(LeavesOf(data)[n])

\* C12 witness: three leaves with distinct names, the first two in a folder that
\* is inside a folder, one of them with its "request" before its "name" and with
\* "event" and "response", the third with scalar and mapping-valued extra keys.
C12_Witness ==
    /\ pc = "done"
    /\ data = Collection(<< Folder(<<Folder(<<Leaf_get_user, Leaf_List>>)>>), Leaf_Add >>)
    /\ Len(extracted_verb_chunks) = 3

-----------------------------------------------------------------------------
(* Properties of the JSON repair loop, under SpecRepairFair.               *)

\* json.loads(json_str) succeeds.
Parses(value) == value.t = "str" /\ json_loads(value.v).ok

\* The counts of a run with json_fix_retry >= 1, and what it ends with.
RepairBounds ==
    /\ parse_attempts <= json_fix_retry
    /\ fix_calls <= json_fix_retry - 1
    /\ fix_calls <= parse_attempts
    /\ parse_attempts <= fix_calls + 1
    /\ pc = "fix" => parse_attempts = fix_calls + 1 /\ ~Parses(json_str)
    /\ pc = "returned" =>
          /\ Parses(json_str)
          /\ json_value = json_loads(json_str.v).val
          /\ parse_attempts = fix_calls + 1
    /\ (pc = "raised" /\ raised = "Exception") =>
          /\ parse_attempts = json_fix_retry
          /\ ~Parses(json_str)
    /\ pc = "raised" <=> raised # "none"

\* A call of _fix_json comes after a failed parse of the text it is given, and a
\* parse is of the text the last call of _fix_json gave; a successful parse
\* returns, the failure of parse number json_fix_retry raises.
RepairSteps ==
    /\ fix_calls' # fix_calls =>
          /\ pc = "fix"
          /\ ~Parses(json_str)
          /\ parse_attempts = fix_calls + 1
          /\ pc' \in {"parse", "raised"}
    /\ parse_attempts' # parse_attempts =>
          /\ pc = "parse"
          /\ parse_attempts = fix_calls
          /\ json_str' = json_str
          /\ Parses(json_str) => pc' = "returned"
          /\ (~Parses(json_str) /\ parse_attempts' = json_fix_retry) => pc' = "raised"

\* C20 (as amended): with json_fix_retry >= 1, _load_json_safely makes at most
\* json_fix_retry parses and at most json_fix_retry - 1 calls of _fix_json, each
\* after a failed parse and before the parse of what it gave; it returns the
\* value of the first successful parse, which is None exactly when the text is
\* the JSON null; when every parse fails it raises; and it always ends.
C20_BoundedRepair ==
    /\ [](json_fix_retry >= 1 => RepairBounds)
    /\ [][json_fix_retry >= 1 => RepairSteps]_vars
    /\ (json_fix_retry >= 1 => <>(pc \in {"returned", "raised"}))

\* C20 witness: with json_fix_retry = 3, two texts fail to parse, are given to
\* _fix_json, and the third parse succeeds.
C20_Witness ==
    /\ json_fix_retry = 3
    /\ pc = "returned"
    /\ parse_attempts = 3
    /\ fix_calls = 2
    /\ json_value = JList(<<JNum(<<"1">>)>>)

\* C20 as stated: with json_fix_retry >= 1 the value returned is never null.
C20_NeverReturnsNull ==
    (json_fix_retry >= 1 /\ pc = "returned") => json_value # None

====
